---- MODULE Spec2Model ----
(***************************************************************************)
(* Model of the trading_sessions crate (trading_sessions.rs):              *)
(*   IdentifyTradingSession  - scalar classifier of a u32 Unix timestamp   *)
(*   SessionVerification     - compares a claimed label with the classifier*)
(*   SessionColumn           - records a when/then/otherwise expression    *)
(*                             aliased "Session" on a LazyFrame            *)
(* Spec     drives the two scalar structs.                                 *)
(* SpecBulk drives SessionColumn: apply_session_column, then collect.      *)
(***************************************************************************)
EXTENDS Integers, Sequences, FiniteSets

VARIABLES
    called,             \* which scalar method ran last: "none", "identify", "verify"
    unix_timestamp,     \* field unix_timestamp of the struct constructed last
    session,            \* field session of SessionVerification (NoSession otherwise)
    utc_hour,           \* local utc_hour of identify_trading_session
    identified_session, \* the String identify_trading_session returned
    verified,           \* the bool verify returned
    lazyframe,          \* field lazyframe of SessionColumn: source frame + recorded plan
    result              \* what lazyframe.collect() returned

vars == <<called, unix_timestamp, session, utc_hour, identified_session, verified,
          lazyframe, result>>

scalarVars == <<called, unix_timestamp, session, utc_hour, identified_session, verified>>
bulkVars == <<lazyframe, result>>

----------------------------------------------------------------------------
(* Program constants *)

SECONDS_PER_DAY == 86400
SECONDS_PER_HOUR == 3600

----------------------------------------------------------------------------
(* Bounds of the explored inputs *)

MaxDay == 1      \* scalar timestamps are drawn from days 0..MaxDay and the documented days
MaxRows == 2     \* generated frames have 0..MaxRows rows
MaxApply == 2    \* apply_session_column is called at most MaxApply times per frame

\* the timestamps of the doctests
DocTokyo == 1708574400
DocLondon == 1708596000
DocLondonNewYork == 1708696800
DocTimes == {DocTokyo, DocLondon, DocLondonNewYork}

Hours == 0..23
\* the first and the last second of an hour
Offsets == {0, SECONDS_PER_HOUR - 1}
Days == 0..MaxDay

\* u32 timestamps handed to the scalar structs: both ends of every hour of the
\* days 0..MaxDay, and the documented timestamps
Timestamps == {d * SECONDS_PER_DAY + h * SECONDS_PER_HOUR + s :
                  d \in Days, h \in Hours, s \in Offsets}
              \cup DocTimes

\* values of the "time" column: the last second of every hour, and the documented rows
BulkTimes == {SECONDS_PER_DAY + h * SECONDS_PER_HOUR + (SECONDS_PER_HOUR - 1) : h \in Hours}
             \cup DocTimes

SessionLabels == {"Tokyo", "Tokyo_London", "London", "London_NewYork", "NewYork", "Undefined"}

NoSession == "<none>"

\* strings handed to SessionVerification::new
ClaimedSessions == SessionLabels \cup {"tokyo", "TOKYO", "undefined", "Sydney", "", "hello"}

----------------------------------------------------------------------------
(* IdentifyTradingSession *)

IdentifyTradingSession_new(ts) == [unix_timestamp |-> ts]

\* line 42 with the modulo forgotten
UtcHourNoDayModulo(self) == self.unix_timestamp \div SECONDS_PER_HOUR

\* line 42 with the two constants exchanged
UtcHourConstantsSwapped(self) == (self.unix_timestamp % SECONDS_PER_HOUR) \div SECONDS_PER_DAY

\* line 42: (self.unix_timestamp % SECONDS_PER_DAY) / SECONDS_PER_HOUR
UtcHour(self) == (self.unix_timestamp % SECONDS_PER_DAY) \div SECONDS_PER_HOUR

\* the match with exclusive upper bounds (0..6 written for 0..=6, and so on)
SessionOfHourExclusive(hour) ==
    IF hour \in 0..5 THEN "Tokyo"
    ELSE IF hour \in 7..7 THEN "Tokyo_London"
    ELSE IF hour \in 9..11 THEN "London"
    ELSE IF hour \in 13..14 THEN "London_NewYork"
    ELSE IF hour \in 16..20 THEN "NewYork"
    ELSE "Undefined"

\* lines 44-51: the match on utc_hour, first arm that matches
SessionOfHour(hour) ==
    IF hour \in 0..6 THEN "Tokyo"
    ELSE IF hour \in 7..8 THEN "Tokyo_London"
    ELSE IF hour \in 9..12 THEN "London"
    ELSE IF hour \in 13..15 THEN "London_NewYork"
    ELSE IF hour \in 16..21 THEN "NewYork"
    ELSE "Undefined"

identify_trading_session(self) == SessionOfHour(UtcHour(self))

----------------------------------------------------------------------------
(* SessionVerification *)

SessionVerification_new(ts, s) == [unix_timestamp |-> ts, session |-> s]

\* ASCII lower-casing of the strings of ClaimedSessions
ToLower(s) ==
    CASE s = "Tokyo" -> "tokyo"
      [] s = "TOKYO" -> "tokyo"
      [] s = "Tokyo_London" -> "tokyo_london"
      [] s = "London" -> "london"
      [] s = "London_NewYork" -> "london_newyork"
      [] s = "NewYork" -> "newyork"
      [] s = "Undefined" -> "undefined"
      [] s = "Sydney" -> "sydney"
      [] OTHER -> s

\* verify comparing with eq_ignore_ascii_case instead of ==
VerifyIgnoreCase(self) ==
    LET session_identifier == IdentifyTradingSession_new(self.unix_timestamp)
        identified == identify_trading_session(session_identifier)
    IN  ToLower(self.session) = ToLower(identified)

\* lines 88-92
verify(self) ==
    LET session_identifier == IdentifyTradingSession_new(self.unix_timestamp)
        identified == identify_trading_session(session_identifier)
    IN  self.session = identified

----------------------------------------------------------------------------
(* Scalar actions *)

\* IdentifyTradingSession::new(ts).identify_trading_session()
Identify(ts) ==
    LET self == IdentifyTradingSession_new(ts) IN
    /\ called' = "identify"
    /\ unix_timestamp' = self.unix_timestamp
    /\ session' = NoSession
    /\ utc_hour' = UtcHour(self)
    /\ identified_session' = identify_trading_session(self)
    /\ UNCHANGED <<verified, bulkVars>>

\* SessionVerification::new(ts, s).verify()
Verify(ts, s) ==
    LET self == SessionVerification_new(ts, s)
        session_identifier == IdentifyTradingSession_new(self.unix_timestamp)
    IN
    /\ called' = "verify"
    /\ unix_timestamp' = self.unix_timestamp
    /\ session' = self.session
    /\ utc_hour' = UtcHour(session_identifier)
    /\ identified_session' = identify_trading_session(session_identifier)
    /\ verified' = verify(self)
    /\ UNCHANGED bulkVars

----------------------------------------------------------------------------
(* DataFrame / LazyFrame as SessionColumn uses them *)

\* a DataFrame: its columns in order, each a name and one value per row
Column(name, values) == [name |-> name, values |-> values]

Height(df) == IF df.cols = <<>> THEN 0 ELSE Len(df.cols[1].values)

ColumnIndexes(df, name) == {i \in 1..Len(df.cols) : df.cols[i].name = name}

HasColumn(df, name) == ColumnIndexes(df, name) # {}

GetColumn(df, name) == df.cols[CHOOSE i \in ColumnIndexes(df, name) : TRUE].values

\* df.lazy(): a plan that scans df, with no transformation recorded yet
lazy(df) == [df |-> df, plan |-> <<>>]

NoFrame == [cols |-> <<>>]
Ok(df) == [state |-> "ok", df |-> df]
Err(kind) == [state |-> kind, df |-> NoFrame]
Pending == [state |-> "pending", df |-> NoFrame]

----------------------------------------------------------------------------
(* SessionColumn *)

SessionColumn_new(lf) == [lazyframe |-> lf]

\* the chain written with lt instead of lt_eq
SessionOfTimeLt(time) ==
    LET hour == (time % SECONDS_PER_DAY) \div SECONDS_PER_HOUR IN
    IF hour < 6 THEN "Tokyo"
    ELSE IF hour < 8 THEN "Tokyo_London"
    ELSE IF hour < 12 THEN "London"
    ELSE IF hour < 15 THEN "London_NewYork"
    ELSE IF hour < 21 THEN "NewYork"
    ELSE "hello"

\* lines 146-156: the when/then chain on (col("time") % 86400) / 3600 for one row,
\* first predicate that holds, otherwise the literal "hello"
SessionOfTime(time) ==
    LET hour == (time % SECONDS_PER_DAY) \div SECONDS_PER_HOUR IN
    IF hour <= 6 THEN "Tokyo"
    ELSE IF hour <= 8 THEN "Tokyo_London"
    ELSE IF hour <= 12 THEN "London"
    ELSE IF hour <= 15 THEN "London_NewYork"
    ELSE IF hour <= 21 THEN "NewYork"
    ELSE "hello"

\* the expression built from literals only: nothing reads col("time")
SessionExprNoColumn(df) ==
    [ok |-> TRUE, values |-> [i \in 1..Height(df) |-> "hello"]]

\* lines 146-157: the expression aliased "Session", evaluated over df;
\* col("time") resolves against df's columns or the evaluation fails
SessionExpr(df) ==
    IF ~HasColumn(df, "time")
    THEN [ok |-> FALSE, values |-> <<>>]
    ELSE [ok |-> TRUE,
          values |-> [i \in 1..Height(df) |-> SessionOfTime(GetColumn(df, "time")[i])]]

\* with_column that always appends the new column
WithColumnAppend(df, name, values) ==
    [cols |-> Append(df.cols, Column(name, values))]

\* select in place of with_column: only the new column is kept
WithColumnSelect(df, name, values) ==
    [cols |-> <<Column(name, values)>>]

\* line 145, with_column: a column of that name is replaced where it stands,
\* a new name is appended after the existing columns
with_column(df, name, values) ==
    IF HasColumn(df, name)
    THEN [cols |-> [i \in 1..Len(df.cols) |->
                      IF df.cols[i].name = name THEN Column(name, values) ELSE df.cols[i]]]
    ELSE [cols |-> Append(df.cols, Column(name, values))]

SessionStep == [op |-> "with_column", alias |-> "Session"]

\* lines 144-158: the plan of self.lazyframe grows by the Session step; nothing is evaluated
apply_session_column(self) ==
    [self EXCEPT !.lazyframe.plan = Append(@, SessionStep)]

RECURSIVE RunPlan(_, _)
\* the recorded steps, run in order over the scanned frame; the first failure ends the run
RunPlan(df, plan) ==
    IF plan = <<>> THEN Ok(df)
    ELSE LET e == SessionExpr(df) IN
         IF ~e.ok THEN Err("ColumnNotFound")
         ELSE RunPlan(with_column(df, Head(plan).alias, e.values), Tail(plan))

\* lazyframe.collect()
collect(lf) == RunPlan(lf.df, lf.plan)

----------------------------------------------------------------------------
(* Frames handed to SessionColumn::new *)

StaleColumn(n) == Column("Session", [i \in 1..n |-> "stale"])
PriceColumn(n) == Column("price", [i \in 1..n |-> 100 + i])

MkFrame(hasStale, hasTime, hasPrice, times) ==
    [cols |-> (IF hasStale THEN <<StaleColumn(Len(times))>> ELSE <<>>)
              \o (IF hasTime THEN <<Column("time", times)>> ELSE <<>>)
              \o (IF hasPrice THEN <<PriceColumn(Len(times))>> ELSE <<>>)]

\* the frame of the SessionColumn doctest, lines 114-116
DocFrame == [cols |-> <<Column("time", <<DocTokyo, DocLondon, DocLondonNewYork>>)>>]

----------------------------------------------------------------------------
(* Bulk actions *)

\* session_column.apply_session_column()
ApplySessionColumn ==
    /\ result.state = "pending"
    /\ Len(lazyframe.plan) < MaxApply
    /\ lazyframe' = apply_session_column(SessionColumn_new(lazyframe)).lazyframe
    /\ UNCHANGED <<result, scalarVars>>

\* session_column.lazyframe.collect(): the frame is moved out and evaluated
Collect ==
    /\ result.state = "pending"
    /\ result' = collect(lazyframe)
    /\ UNCHANGED <<lazyframe, scalarVars>>

----------------------------------------------------------------------------
(* Specifications *)

InitScalar ==
    /\ called = "none"
    /\ unix_timestamp = 0
    /\ session = NoSession
    /\ utc_hour = 0
    /\ identified_session = NoSession
    /\ verified = FALSE

Init ==
    /\ InitScalar
    /\ lazyframe = lazy(NoFrame)
    /\ result = Pending

Next ==
    \/ \E ts \in Timestamps : Identify(ts)
    \/ \E ts \in Timestamps, s \in ClaimedSessions : Verify(ts, s)

Spec == Init /\ [][Next]_vars

InitBulk ==
    /\ InitScalar
    /\ result = Pending
    /\ \/ lazyframe = SessionColumn_new(lazy(DocFrame)).lazyframe
       \/ \E n \in 0..MaxRows, hasStale \in BOOLEAN, hasTime \in BOOLEAN, hasPrice \in BOOLEAN :
            \E times \in [1..n -> IF hasTime THEN BulkTimes ELSE {0}] :
               lazyframe = SessionColumn_new(lazy(MkFrame(hasStale, hasTime, hasPrice, times))).lazyframe

NextBulk ==
    \/ ApplySessionColumn
    \/ Collect

SpecBulk == InitBulk /\ [][NextBulk]_vars

----------------------------------------------------------------------------
(* Properties of the scalar structs, checked under Spec *)

HourOfDay(t) == (t % 86400) \div 3600

\* C1: every timestamp gets exactly one label, fixed by hour = (T mod 86400) div 3600,
\* which lies in 0..23: 0-6 Tokyo, 7-8 Tokyo_London, 9-12 London, 13-15 London_NewYork,
\* 16-21 NewYork, 22-23 Undefined; no other string is returned.
C1_HourTable ==
    called # "none" =>
        LET h == HourOfDay(unix_timestamp) IN
        /\ h \in 0..23
        /\ utc_hour = h
        /\ identified_session \in SessionLabels
        /\ (h \in 0..6 => identified_session = "Tokyo")
        /\ (h \in 7..8 => identified_session = "Tokyo_London")
        /\ (h \in 9..12 => identified_session = "London")
        /\ (h \in 13..15 => identified_session = "London_NewYork")
        /\ (h \in 16..21 => identified_session = "NewYork")
        /\ (h \in 22..23 => identified_session = "Undefined")

C1_Witness ==
    /\ called = "identify"
    /\ unix_timestamp = SECONDS_PER_DAY + 6 * SECONDS_PER_HOUR + 3599
    /\ identified_session = "Tokyo"

\* C2: verify returns true exactly when the claimed string equals, character for
\* character, the string identify_trading_session returns for the timestamp.
C2_VerifyIff ==
    called = "verify" =>
        (verified <=>
            session = identify_trading_session(IdentifyTradingSession_new(unix_timestamp)))

C2_Witness ==
    /\ called = "verify"
    /\ session = "tokyo"
    /\ identified_session = "Tokyo"
    /\ verified = FALSE

\* C5 as stated: 1708574400 has hour 0 and is Tokyo (verify "Tokyo" true, "London" false),
\* 1708596000 has hour 9 and is London, 1708696800 has hour 13 and is London_NewYork.
C5_Original ==
    called # "none" =>
        /\ unix_timestamp = DocTokyo =>
              /\ utc_hour = 0
              /\ identified_session = "Tokyo"
              /\ (called = "verify" /\ session = "Tokyo" => verified)
              /\ (called = "verify" /\ session = "London" => ~verified)
        /\ unix_timestamp = DocLondon => (utc_hour = 9 /\ identified_session = "London")
        /\ unix_timestamp = DocLondonNewYork =>
              (utc_hour = 13 /\ identified_session = "London_NewYork")

\* C5 amended: 1708574400 has hour 4 and is Tokyo (verify "Tokyo" true, "London" false),
\* 1708596000 has hour 10 and is London, 1708696800 has hour 14 and is London_NewYork.
C5_DocScenarios ==
    called # "none" =>
        /\ unix_timestamp = DocTokyo =>
              /\ utc_hour = 4
              /\ identified_session = "Tokyo"
              /\ (called = "verify" /\ session = "Tokyo" => verified)
              /\ (called = "verify" /\ session = "London" => ~verified)
        /\ unix_timestamp = DocLondon => (utc_hour = 10 /\ identified_session = "London")
        /\ unix_timestamp = DocLondonNewYork =>
              (utc_hour = 14 /\ identified_session = "London_NewYork")

C5_Witness ==
    /\ called = "verify"
    /\ unix_timestamp = DocTokyo
    /\ session = "London"
    /\ verified = FALSE

\* C6: a timestamp gets the label, and verify the answer, of every timestamp a whole
\* number of days earlier (T and T - 86400*k, both u32 values).
C6_DayPeriodic ==
    called # "none" =>
        \A k \in 0..(unix_timestamp \div 86400) :
            LET earlier == unix_timestamp - 86400 * k IN
            /\ identified_session = identify_trading_session(IdentifyTradingSession_new(earlier))
            /\ (called = "verify" =>
                    verified = verify(SessionVerification_new(earlier, session)))

C6_Witness ==
    /\ called = "verify"
    /\ unix_timestamp = DocLondon
    /\ session = "London"
    /\ verified = TRUE

----------------------------------------------------------------------------
(* Properties of SessionColumn, checked under SpecBulk *)

\* the frame SessionColumn::new was given
Source == lazyframe.df

Applied == Len(lazyframe.plan)

\* collect() returned a frame after at least one apply_session_column
Materialized == result.state = "ok" /\ Applied >= 1

SessionAt(i) == GetColumn(result.df, "Session")[i]
TimeAt(i) == GetColumn(Source, "time")[i]

\* C3: for every row, whatever its hour, the Session value equals what
\* identify_trading_session returns for the row's time.
C3_BulkAgreesWithScalar ==
    Materialized =>
        \A i \in 1..Height(Source) :
            SessionAt(i) = identify_trading_session(IdentifyTradingSession_new(TimeAt(i)))

\* C4: every Session value is one of the six labels, and a row whose hour is 22 or 23
\* is labeled "Undefined".
C4_ClosedLabelSet ==
    Materialized =>
        \A i \in 1..Height(Source) :
            /\ SessionAt(i) \in SessionLabels
            /\ (HourOfDay(TimeAt(i)) \in 22..23 => SessionAt(i) = "Undefined")

\* C7: after two or more apply_session_column calls the frame has exactly one Session
\* column, with the values a single call gives.
C7_Idempotent ==
    (result.state = "ok" /\ Applied >= 2) =>
        LET once == collect(apply_session_column(SessionColumn_new(lazy(Source))).lazyframe) IN
        /\ Cardinality(ColumnIndexes(result.df, "Session")) = 1
        /\ once.state = "ok"
        /\ GetColumn(result.df, "Session") = GetColumn(once.df, "Session")

C7_Witness ==
    /\ result.state = "ok"
    /\ Applied = 2
    /\ Height(Source) = 2
    /\ HasColumn(Source, "Session")
    /\ SessionAt(1) = "London"
    /\ SessionAt(2) = "hello"

\* C8: for every row whose hour is in 0..21, last seconds of an hour included, the
\* Session value equals the scalar classifier's label; the documented frame gets
\* Tokyo, London, London_NewYork.
C8_AgreementBelow22 ==
    Materialized =>
        /\ \A i \in 1..Height(Source) :
              HourOfDay(TimeAt(i)) \in 0..21 =>
                 SessionAt(i) = identify_trading_session(IdentifyTradingSession_new(TimeAt(i)))
        /\ (Len(Source.cols) = 1 /\ GetColumn(Source, "time") = <<1708574400, 1708596000, 1708696800>>)
              => GetColumn(result.df, "Session") = <<"Tokyo", "London", "London_NewYork">>

C8_Witness ==
    /\ Materialized
    /\ Height(Source) = 2
    /\ TimeAt(1) = SECONDS_PER_DAY + 6 * SECONDS_PER_HOUR + 3599
    /\ TimeAt(2) = SECONDS_PER_DAY + 21 * SECONDS_PER_HOUR + 3599
    /\ SessionAt(1) = "Tokyo"
    /\ SessionAt(2) = "NewYork"

C9_Outcome ==
    (result.state # "pending" /\ Applied >= 1) =>
        IF ~HasColumn(Source, "time")
        THEN result.state = "ColumnNotFound"
        ELSE /\ result.state = "ok"
             /\ Cardinality(ColumnIndexes(result.df, "Session")) = 1
             /\ Len(GetColumn(result.df, "Session")) = Height(Source)
             /\ \A i \in 1..Height(Source) : SessionAt(i) \in SessionLabels \cup {"hello"}

C9_Lazy ==
    lazyframe' # lazyframe =>
        /\ result' = result
        /\ result.state = "pending"
        /\ lazyframe'.df = lazyframe.df
        /\ Len(lazyframe'.plan) = Len(lazyframe.plan) + 1

C10_Frame ==
    Materialized =>
        /\ Len(result.df.cols) = Len(Source.cols) + (IF HasColumn(Source, "Session") THEN 0 ELSE 1)
        /\ Height(result.df) = Height(Source)
        /\ Len(GetColumn(result.df, "Session")) = Height(Source)
        /\ \A i \in 1..Len(Source.cols) :
              Source.cols[i].name # "Session" =>
                 /\ result.df.cols[i].name = Source.cols[i].name
                 /\ result.df.cols[i].values = Source.cols[i].values

C10_Witness ==
    /\ Materialized
    /\ Len(Source.cols) = 3
    /\ Height(Source) = 2
    /\ result.df.cols[1].name = "Session"
    /\ result.df.cols[1].values # <<"stale", "stale">>
    /\ result.df.cols[3].name = "price"

====
